---- MODULE Spec2Model ----
(***************************************************************************)
(* Eroquiz: the quiz session state machine of the Quiz component           *)
(* (src/unnamed/part_015) and the part of the Home page that mounts it and *)
(* receives its final tally (src/client/src/pages/Home.tsx).               *)
(*                                                                         *)
(* React semantics modelled:                                               *)
(*  - an event handler reads the state of the render it was created in;    *)
(*    a setTimeout callback created by a handler keeps that render's       *)
(*    values (currentQuestionIndex, answeredQuestionsMap, lives) when it   *)
(*    runs later;                                                          *)
(*  - after a handler the component re-renders and its effects run before  *)
(*    the next event, so a handler, the render and the effects it causes   *)
(*    are one step;                                                        *)
(*  - a state setter called on an unmounted component does nothing.        *)
(* Question indices are 0-based as in the source; shuffledQuestions is a   *)
(* sequence, so question i is shuffledQuestions[i + 1].                    *)
(***************************************************************************)
EXTENDS Integers, Sequences, FiniteSets, TLC

\* ---------------------------------------------------------------- bounds
BankSize == 2
NumOptions == 2
MaxLives == 2
Duration == 4
MaxPending == 2
MaxSessions == 2

\* ------------------------------------------------- constants of the code
TickMs == 1000
FeedbackDelayMs == 1500
AckDelayMs == 500
NoAnswer == -1

VARIABLES questions, settings, playerCategory, home, quiz, pending,
          sessions, reports, ticks, writes

vars == <<questions, settings, playerCategory, home, quiz, pending,
          sessions, reports, ticks, writes>>

\* ----------------------------------------------------------- data model
RECURSIVE Pow2(_)
Pow2(n) == IF n = 0 THEN 1 ELSE 2 * Pow2(n - 1)

\* Question i of the bank: distinct point values, so that a sum of points
\* determines the set of questions it was taken over.  Category 1 holds the
\* first two questions, category 2 the first one, category 3 none, and the
\* questions after the second belong to category 4 only.
BankQuestion(i) ==
  [id |-> i,
   correctAnswer |-> i % NumOptions,
   points |-> Pow2(i - 1),
   categories |-> IF i = 1 THEN {1, 2} ELSE IF i = 2 THEN {1} ELSE {4}]

\* The categories a player selects in the modelled sessions.
CategoryIds == {1, 2, 3}

FullBank == [i \in 1..BankSize |-> BankQuestion(i)]

EmptyMap == [i \in {} |-> 0]

NoReviewData == [present |-> FALSE, questions |-> <<>>, userAnswers |-> EmptyMap]

\* All orderings of the elements of sequence s.
Perms(s) ==
  LET n == Len(s)
  IN  {[i \in 1..n |-> s[f[i]]] :
         f \in {g \in [1..n -> 1..n] : \A a, b \in 1..n : a # b => g[a] # g[b]}}

\* The questions of sequence s whose categories include cat, in order.
RECURSIVE FilterSeq(_, _)
FilterSeq(s, cat) ==
  IF s = <<>> THEN <<>>
  ELSE IF cat \in Head(s).categories
       THEN <<Head(s)>> \o FilterSeq(Tail(s), cat)
       ELSE FilterSeq(Tail(s), cat)

\* Sum of f over the finite set S.
RECURSIVE SumOver(_, _)
SumOver(S, f) ==
  IF S = {} THEN 0
  ELSE LET x == CHOOSE y \in S : TRUE
       IN  f[x] + SumOver(S \ {x}, f)

NumQuestions(q) == Len(q.shuffledQuestions)
QuestionAt(q, i) == q.shuffledQuestions[i + 1]

\* ------------------------------------------------- Quiz: initial state
\* useState initial values of a freshly mounted Quiz.
QuizInitial(s) ==
  [currentQuestionIndex |-> 0,
   lives |-> s.lives,
   score |-> 0,
   quizTimeLeft |-> s.quizDurationSeconds,
   selectedAnswer |-> NoAnswer,
   answeredQuestions |-> 0,
   correctAnswers |-> 0,
   isTimerRunning |-> TRUE,
   quizEnded |-> FALSE,
   isLoading |-> TRUE,
   answeredQuestionsMap |-> {},
   userAnswers |-> EmptyMap,
   visitedQuestionsMap |-> {},
   showReviewScreen |-> FALSE,
   isReviewMode |-> s.reviewModeEnabled,
   shuffledQuestions |-> <<>>]

\* ShuffleChoices without the fallback to the whole bank.
ShuffleChoicesNoFallback(qs, cat) == Perms(FilterSeq(qs, cat))

\* The orders the filter-and-shuffle effect can produce.
ShuffleChoices(qs, cat) ==
  IF FilterSeq(qs, cat) # <<>> THEN Perms(FilterSeq(qs, cat)) ELSE Perms(qs)

\* FilterAndShuffle that does not mark the first question as visited.
FilterAndShuffleNoVisit(q, qs, order) ==
  IF Len(qs) > 0
  THEN [q EXCEPT !.shuffledQuestions = order, !.isLoading = FALSE]
  ELSE q

\* The filter-and-shuffle effect, with the order the shuffle produced.
FilterAndShuffle(q, qs, order) ==
  IF Len(qs) > 0
  THEN [q EXCEPT !.shuffledQuestions = order,
                 !.visitedQuestionsMap = @ \cup {0},
                 !.isLoading = FALSE]
  ELSE q

\* ---------------------------------------------------- Quiz: the handlers
\* The values a deferred moveToNextQuestion keeps from the render in which
\* the answer was clicked.
Closure(q, sess) ==
  [sess |-> sess, age |-> 0,
   currentQuestionIndex |-> q.currentQuestionIndex,
   answeredQuestionsMap |-> q.answeredQuestionsMap,
   lives |-> q.lives]

AnswerRejected(q) == q.selectedAnswer # NoAnswer \/ ~q.isTimerRunning

\* PutAnswer that keeps the entry a question already has.
PutAnswerKeepsFirst(ua, i, a) ==
  [k \in (DOMAIN ua) \cup {i} |-> IF k \in DOMAIN ua THEN ua[k] ELSE a]

PutAnswer(ua, i, a) ==
  [k \in (DOMAIN ua) \cup {i} |-> IF k = i THEN a ELSE ua[k]]

\* LosesLife that does not look at the lives setting.
LosesLifeAlways(isCorrect) == ~isCorrect

\* MarkAnswered that leaves the map as it is.
MarkAnsweredNever(m, i) == m

\* setAnsweredQuestionsMap(prev => ({ ...prev, [currentQuestionIndex]: true })).
MarkAnswered(m, i) == m \cup {i}

\* Whether an answer of Immediate-Feedback mode costs a life.
LosesLife(isCorrect) == ~isCorrect /\ settings.livesEnabled

\* HandleAnswerClick that stops the quiz timer while the feedback is shown.
HandleAnswerClickPausesTimer(q, a) ==
  IF AnswerRejected(q) THEN q
  ELSE
    LET i == q.currentQuestionIndex
        q1 == [q EXCEPT !.userAnswers = PutAnswer(@, i, a),
                        !.answeredQuestionsMap = MarkAnswered(@, i),
                        !.selectedAnswer = a,
                        !.isTimerRunning = FALSE]
        isCorrect == a = QuestionAt(q, i).correctAnswer
    IN  IF q.isReviewMode THEN q1
        ELSE IF isCorrect
             THEN [q1 EXCEPT !.score = @ + QuestionAt(q, i).points,
                             !.correctAnswers = @ + 1,
                             !.answeredQuestions = @ + 1]
             ELSE IF LosesLife(isCorrect)
                  THEN [q1 EXCEPT !.lives = @ - 1,
                                  !.answeredQuestions = @ + 1]
                  ELSE [q1 EXCEPT !.answeredQuestions = @ + 1]

\* handleAnswerClick: the state after the synchronous part.
HandleAnswerClick(q, a) ==
  IF AnswerRejected(q) THEN q
  ELSE
    LET i == q.currentQuestionIndex
        q1 == [q EXCEPT !.userAnswers = PutAnswer(@, i, a),
                        !.answeredQuestionsMap = MarkAnswered(@, i),
                        !.selectedAnswer = a]
        isCorrect == a = QuestionAt(q, i).correctAnswer
    IN  IF q.isReviewMode THEN q1
        ELSE IF isCorrect
             THEN [q1 EXCEPT !.score = @ + QuestionAt(q, i).points,
                             !.correctAnswers = @ + 1,
                             !.answeredQuestions = @ + 1]
             ELSE IF LosesLife(isCorrect)
                  THEN [q1 EXCEPT !.lives = @ - 1,
                                  !.answeredQuestions = @ + 1]
                  ELSE [q1 EXCEPT !.answeredQuestions = @ + 1]

\* The index the search of moveToNextQuestion finds, or -1: first in
\* (cur, n) and then in [0, cur), among the indices not in map.
FindNext(cur, map, n) ==
  LET fwd == {i \in (cur + 1)..(n - 1) : i \notin map}
      back == {i \in 0..(cur - 1) : i \notin map}
      Min(S) == CHOOSE x \in S : \A y \in S : x <= y
  IN  IF fwd # {} THEN Min(fwd)
      ELSE IF back # {} THEN Min(back)
      ELSE -1

\* Finish that ends the session in both modes.
FinishEndsQuiz(q) == [q EXCEPT !.quizEnded = TRUE]

\* What moveToNextQuestion does when no question is left to move to.
Finish(q) ==
  IF q.isReviewMode THEN [q EXCEPT !.showReviewScreen = TRUE]
  ELSE [q EXCEPT !.quizEnded = TRUE]

\* moveToNextQuestion, run with the closure c on the current state q0
\* (selectedAnswer has been reset by the caller or by its first line).
MoveToNextQuestion(q0, c) ==
  LET q == [q0 EXCEPT !.selectedAnswer = NoAnswer]
      n == NumQuestions(q)
      allQuestionsAnswered == Cardinality(c.answeredQuestionsMap) >= n
      nextIndex == FindNext(c.currentQuestionIndex, c.answeredQuestionsMap, n)
  IN  IF allQuestionsAnswered THEN Finish(q)
      ELSE IF settings.livesEnabled /\ c.lives <= 0
           THEN [q EXCEPT !.quizEnded = TRUE]
      ELSE IF n = 1 THEN Finish(q)
      ELSE IF nextIndex = -1 THEN Finish(q)
      ELSE [q EXCEPT !.currentQuestionIndex = nextIndex,
                     !.visitedQuestionsMap = @ \cup {nextIndex}]

\* NavigationRejected that refuses answered questions in both modes.
NavigationRejectedAnyMode(q, index) ==
  \/ index = q.currentQuestionIndex
  \/ index \in q.answeredQuestionsMap
  \/ ~q.isTimerRunning

NavigationRejected(q, index) ==
  \/ index = q.currentQuestionIndex
  \/ (~q.isReviewMode /\ index \in q.answeredQuestionsMap)
  \/ ~q.isTimerRunning

\* NavigateToQuestion without the range test.
NavigateToQuestionNoRange(q, index) ==
  IF NavigationRejected(q, index) THEN q
  ELSE [q EXCEPT !.selectedAnswer = NoAnswer,
                 !.currentQuestionIndex = index,
                 !.visitedQuestionsMap = @ \cup {index}]

\* NavigateToQuestion that does not mark the question as visited.
NavigateToQuestionNoVisit(q, index) ==
  IF NavigationRejected(q, index) THEN q
  ELSE IF index >= 0 /\ index < NumQuestions(q)
       THEN [q EXCEPT !.selectedAnswer = NoAnswer,
                      !.currentQuestionIndex = index]
       ELSE q

NavigateToQuestion(q, index) ==
  IF NavigationRejected(q, index) THEN q
  ELSE IF index >= 0 /\ index < NumQuestions(q)
       THEN [q EXCEPT !.selectedAnswer = NoAnswer,
                      !.currentQuestionIndex = index,
                      !.visitedQuestionsMap = @ \cup {index}]
       ELSE q

\* The onClick of an entry of the review screen.
ReviewJump(q, index) ==
  IF q.isTimerRunning
  THEN [q EXCEPT !.showReviewScreen = FALSE, !.currentQuestionIndex = index]
  ELSE q

\* SubmitRejected that only refuses an empty userAnswers.
SubmitRejectedEmptyOnly(q) == Cardinality(DOMAIN q.userAnswers) = 0

SubmitRejected(q) == Cardinality(DOMAIN q.userAnswers) < NumQuestions(q)

\* CorrectlyAnswered that takes every recorded answer as correct.
CorrectlyAnsweredAll(q) == DOMAIN q.userAnswers

CorrectlyAnswered(q) ==
  {i \in DOMAIN q.userAnswers : q.userAnswers[i] = QuestionAt(q, i).correctAnswer}

PointsOf(q) == [i \in 0..(NumQuestions(q) - 1) |-> QuestionAt(q, i).points]

\* handleSubmitReview: the tally it computes.
ReviewTally(q) ==
  [score |-> SumOver(CorrectlyAnswered(q), PointsOf(q)),
   answered |-> Cardinality(DOMAIN q.userAnswers),
   correct |-> Cardinality(CorrectlyAnswered(q)),
   reviewData |-> [present |-> TRUE, questions |-> q.shuffledQuestions,
                   userAnswers |-> q.userAnswers]]

\* handleSubmitReview: the state of the Quiz after it.
HandleSubmitReview(q) ==
  IF SubmitRejected(q) THEN q
  ELSE [q EXCEPT !.score = ReviewTally(q).score,
                 !.correctAnswers = ReviewTally(q).correct,
                 !.answeredQuestions = ReviewTally(q).answered,
                 !.quizEnded = TRUE]

\* ------------------------------------------- Quiz: render and effects
\* Which screen the render returns.
View(q) ==
  IF q.isLoading THEN "loading"
  ELSE IF NumQuestions(q) = 0 THEN "noQuestions"
  ELSE IF q.quizEnded THEN "finishing"
  ELSE IF q.showReviewScreen THEN "review"
  ELSE "question"

\* RenderCheck without the test of the lives.
RenderCheckNoLives(q) ==
  IF View(q) = "question" /\ q.currentQuestionIndex >= NumQuestions(q)
  THEN [q EXCEPT !.quizEnded = TRUE]
  ELSE q

\* The render-time check in front of the question view.
RenderCheck(q) ==
  IF View(q) = "question"
     /\ (\/ q.currentQuestionIndex >= NumQuestions(q)
         \/ (settings.livesEnabled /\ q.lives <= 0))
  THEN [q EXCEPT !.quizEnded = TRUE]
  ELSE q

\* TimerEffect that does not end a session showing the review screen.
TimerEffectNotOnReview(q) ==
  IF q.quizTimeLeft = 0 /\ ~q.showReviewScreen
  THEN [q EXCEPT !.isTimerRunning = FALSE, !.quizEnded = TRUE]
  ELSE q

\* The body of the timer effect when it does not arm the timer.
TimerEffect(q) ==
  IF ~(q.isTimerRunning /\ q.quizTimeLeft > 0) /\ q.quizTimeLeft = 0
  THEN [q EXCEPT !.isTimerRunning = FALSE, !.quizEnded = TRUE]
  ELSE q

\* EffectTally that leaves out the answer whose feedback is on screen.
EffectTallyBeforeAnswer(q) ==
  [score |-> q.score,
   answered |-> IF q.selectedAnswer # NoAnswer THEN q.answeredQuestions - 1
                ELSE q.answeredQuestions,
   correct |-> q.correctAnswers, reviewData |-> NoReviewData]

\* The tally the quiz-end effect hands to onQuizEnd.
EffectTally(q) ==
  [score |-> q.score, answered |-> q.answeredQuestions,
   correct |-> q.correctAnswers, reviewData |-> NoReviewData]

\* ------------------------------------------------------------- Home
\* Home when the rules are shown: Login has passed a name, which it only
\* does for a non-empty one, and a category has been selected.
HomeInitial ==
  [gameStage |-> "rules", playerName |-> "player", score |-> 0,
   correctAnswers |-> 0, questionsAnswered |-> 0, reviewData |-> NoReviewData]

\* handleQuizEnd that leaves the quiz stage on screen.
HandleQuizEndKeepsStage(h, t) ==
  [h EXCEPT !.score = t.score,
            !.questionsAnswered = t.answered,
            !.correctAnswers = t.correct,
            !.reviewData = t.reviewData]

\* handleQuizEnd: the state of Home after it.
HandleQuizEnd(h, t) ==
  [h EXCEPT !.score = t.score,
            !.questionsAnswered = t.answered,
            !.correctAnswers = t.correct,
            !.gameStage = "score",
            !.reviewData = t.reviewData]

\* handleStartQuiz and handlePlayAgain.
HandleStartQuiz(h) ==
  [h EXCEPT !.gameStage = "quiz", !.score = 0, !.correctAnswers = 0,
            !.questionsAnswered = 0]

\* Mounted, had Home kept the Quiz behind the score page.
MountedInScore == home.gameStage \in {"quiz", "score"}

Mounted == home.gameStage = "quiz"

\* The entry the Score Reporter receives for tally t.
Report(t) ==
  [score |-> t.score, answered |-> t.answered, correct |-> t.correct,
   review |-> t.reviewData.present, category |-> playerCategory,
   sess |-> sessions]

\* The body of a write request for tally t (the elapsed wall-clock time of
\* the leaderboard entry is left out).
Write(t) ==
  [score |-> t.score, answered |-> t.answered, correct |-> t.correct,
   category |-> playerCategory, status |-> "pending"]

\* The writes handleQuizEnd issues: one to the local game-session store and
\* one to the remote leaderboard, when a player name is set.
IssueWrites(h, w, t) ==
  IF h.playerName # ""
  THEN [local |-> Append(w.local, Write(t)),
        remote |-> Append(w.remote, Write(t))]
  ELSE w

\* onQuizEnd(t) called with Home in state h, r reported and w written so far.
OnQuizEnd(h, r, w, t) ==
  [home |-> HandleQuizEnd(h, t),
   reports |-> Append(r, Report(t)),
   writes |-> IssueWrites(h, w, t)]

\* QuizEndEffect that also runs for a Quiz Home no longer renders.
QuizEndEffectUnmounted(o, q) ==
  IF q.quizEnded
  THEN OnQuizEnd(o.home, o.reports, o.writes, EffectTally(q))
  ELSE o

\* The quiz-end effect after a render in which Home is o.home and the Quiz
\* is q: it runs when the Quiz is still rendered and quizEnded is set.
QuizEndEffect(o, q) ==
  IF o.home.gameStage = "quiz" /\ q.quizEnded
  THEN OnQuizEnd(o.home, o.reports, o.writes, EffectTally(q))
  ELSE o

\* Home, the reports and the writes as they are.
Outside == [home |-> home, reports |-> reports, writes |-> writes]

SetOutside(o) ==
  /\ home' = o.home
  /\ reports' = o.reports
  /\ writes' = o.writes

\* The render and the effects that follow a handler which left the Quiz in
\* state q2: the render-time check, the timer effect, and the quiz-end
\* effect, which reports the tally and lets Home replace the Quiz by the
\* score page.
Settle(q2) ==
  LET q3 == TimerEffect(RenderCheck(q2))
  IN  /\ quiz' = q3
      /\ SetOutside(QuizEndEffect(Outside, q3))

\* ------------------------------------------------------ initial state
SettingsChoices ==
  {[quizDurationSeconds |-> Duration, livesEnabled |-> le, lives |-> l,
    reviewModeEnabled |-> rm] :
     le \in BOOLEAN, l \in 1..MaxLives, rm \in BOOLEAN}

\* The bank is full or empty.  Where the lives are not used (lives disabled,
\* review mode) one life count stands for all, and the review-mode sessions
\* are those of a category that has questions.
Init ==
  /\ questions \in {FullBank, <<>>}
  /\ settings \in {s \in SettingsChoices :
                     (~s.livesEnabled \/ s.reviewModeEnabled) => s.lives = MaxLives}
  /\ playerCategory \in CategoryIds
  /\ settings.reviewModeEnabled => FilterSeq(questions, playerCategory) # <<>>
  /\ home = HomeInitial
  /\ quiz = QuizInitial(settings)
  /\ pending = <<>>
  /\ sessions = 0
  /\ reports = <<>>
  /\ ticks = 0
  /\ writes = [local |-> <<>>, remote |-> <<>>]

\* ------------------------------------------------------------ actions
\* Mount that carries the state of the previous Quiz over.
MountKeepsQuiz(order) ==
  /\ sessions' = sessions + 1
  /\ home' = HandleStartQuiz(home)
  /\ quiz' = FilterAndShuffle(quiz, questions, order)
  /\ ticks' = 0
  /\ UNCHANGED <<questions, settings, playerCategory, pending, reports, writes>>

\* Mounting the Quiz: the initial state and the effects of the first render.
Mount(order) ==
  /\ sessions' = sessions + 1
  /\ home' = HandleStartQuiz(home)
  /\ quiz' = FilterAndShuffle(QuizInitial(settings), questions, order)
  /\ ticks' = 0
  /\ UNCHANGED <<questions, settings, playerCategory, pending, reports, writes>>

\* The player confirms the rules.
StartQuiz ==
  /\ home.gameStage = "rules"
  /\ \E order \in ShuffleChoices(questions, playerCategory) : Mount(order)

MinTicks(delay) == delay \div TickMs
MaxTicks(delay) == (delay + TickMs - 1) \div TickMs
DelayOf(q) == IF q.isReviewMode THEN AckDelayMs ELSE FeedbackDelayMs

\* The one-second timer fires: setQuizTimeLeft(prev - 1), then the effects.
Tick ==
  /\ Mounted
  /\ quiz.isTimerRunning /\ quiz.quizTimeLeft > 0
  /\ \A k \in 1..Len(pending) : pending[k].age < MaxTicks(DelayOf(quiz))
  /\ ticks' = ticks + 1
  /\ pending' = [k \in 1..Len(pending) |-> [pending[k] EXCEPT !.age = @ + 1]]
  /\ Settle([quiz EXCEPT !.quizTimeLeft = @ - 1])
  /\ UNCHANGED <<questions, settings, playerCategory, sessions>>

\* The player clicks option a of the displayed question.
AnswerClick(a) ==
  /\ Mounted
  /\ View(quiz) = "question"
  /\ AnswerRejected(quiz) \/ Len(pending) < MaxPending
  /\ pending' = IF AnswerRejected(quiz) THEN pending
                ELSE Append(pending, Closure(quiz, sessions))
  /\ Settle(HandleAnswerClick(quiz, a))
  /\ UNCHANGED <<questions, settings, playerCategory, sessions, ticks>>

\* The oldest deferred continuation runs: moveToNextQuestion with the values
\* of the render its answer was clicked in.  The setters of a Quiz that is no
\* longer mounted do nothing.
FireContinuation ==
  /\ pending # <<>>
  /\ LET c == Head(pending)
     IN  /\ c.age >= MinTicks(DelayOf(quiz)) \/ ~Mounted
         /\ pending' = Tail(pending)
         /\ IF Mounted /\ c.sess = sessions
            THEN Settle(MoveToNextQuestion(quiz, c))
            ELSE UNCHANGED <<quiz, home, reports, writes>>
  /\ UNCHANGED <<questions, settings, playerCategory, sessions, ticks>>

\* The player clicks entry index of the navigation panel.
Navigate(index) ==
  /\ Mounted
  /\ View(quiz) = "question"
  /\ Settle(NavigateToQuestion(quiz, index))
  /\ UNCHANGED <<questions, settings, playerCategory, pending, sessions, ticks>>

\* REVIEW ANSWERS on the question view (review mode, at least one answer).
OpenReview ==
  /\ Mounted
  /\ View(quiz) = "question"
  /\ quiz.isReviewMode /\ DOMAIN quiz.userAnswers # {}
  /\ Settle([quiz EXCEPT !.showReviewScreen = TRUE])
  /\ UNCHANGED <<questions, settings, playerCategory, pending, sessions, ticks>>

\* The player clicks question index on the review screen.
ReviewJumpClick(index) ==
  /\ Mounted
  /\ View(quiz) = "review"
  /\ Settle(ReviewJump(quiz, index))
  /\ UNCHANGED <<questions, settings, playerCategory, pending, sessions, ticks>>

\* handleSubmitReview is called on the review screen.  An accepted
\* submission sets quizEnded and calls onQuizEnd itself in the same handler;
\* the quiz-end effect follows the render that comes after both.
SubmitReview ==
  /\ Mounted
  /\ View(quiz) = "review"
  /\ quiz' = HandleSubmitReview(quiz)
  /\ IF SubmitRejected(quiz)
     THEN UNCHANGED <<home, reports, writes>>
     ELSE SetOutside(QuizEndEffect(OnQuizEnd(home, reports, writes, ReviewTally(quiz)),
                                   HandleSubmitReview(quiz)))
  /\ UNCHANGED <<questions, settings, playerCategory, pending, sessions, ticks>>

\* AfterWrite that takes the tally back when the write failed.
AfterWriteRollsBack(h, ok) ==
  IF ok THEN h
  ELSE [h EXCEPT !.score = 0, !.questionsAnswered = 0, !.correctAnswers = 0]

\* What the handlers of a settled write do to Home: the .catch of the fetch
\* and of saveScore only log.
AfterWrite(h, ok) == h

SetStatus(ws, k, ok) ==
  [ws EXCEPT ![k].status = IF ok THEN "ok" ELSE "failed"]

IsOldestPending(ws, k) ==
  /\ k \in 1..Len(ws)
  /\ ws[k].status = "pending"
  /\ \A j \in 1..(k - 1) : ws[j].status # "pending"

\* The POST to /api/game-sessions succeeds or fails.
ResolveLocal(ok) ==
  /\ \E k \in 1..Len(writes.local) :
       /\ IsOldestPending(writes.local, k)
       /\ writes' = [writes EXCEPT !.local = SetStatus(@, k, ok)]
  /\ home' = AfterWrite(home, ok)
  /\ UNCHANGED <<questions, settings, playerCategory, quiz, pending, sessions,
                 reports, ticks>>

\* saveScore returns true or false.
ResolveRemote(ok) ==
  /\ \E k \in 1..Len(writes.remote) :
       /\ IsOldestPending(writes.remote, k)
       /\ writes' = [writes EXCEPT !.remote = SetStatus(@, k, ok)]
  /\ home' = AfterWrite(home, ok)
  /\ UNCHANGED <<questions, settings, playerCategory, quiz, pending, sessions,
                 reports, ticks>>

Next ==
  \/ StartQuiz
  \/ Tick
  \/ \E a \in 0..(NumOptions - 1) : AnswerClick(a)
  \/ FireContinuation
  \/ \E index \in -1..BankSize : Navigate(index)
  \/ OpenReview
  \/ \E index \in 0..(BankSize - 1) : index < NumQuestions(quiz) /\ ReviewJumpClick(index)
  \/ SubmitReview

Spec == Init /\ [][Next]_vars

\* The sessions of the categories that have questions, together with the
\* outcomes of the writes their reports issue.
InitWrites ==
  /\ Init
  /\ questions # <<>> => FilterSeq(questions, playerCategory) # <<>>

NextWrites ==
  \/ Next
  \/ \E ok \in BOOLEAN : ResolveLocal(ok)
  \/ \E ok \in BOOLEAN : ResolveRemote(ok)

SpecWrites == InitWrites /\ [][NextWrites]_vars

\* The bank after an edit of its first question: the array useQuery hands to
\* Home once a refetch of an invalidated "/api/questions" has completed.
EditedBank(qs) ==
  [i \in 1..Len(qs) |-> IF i = 1 THEN [qs[i] EXCEPT !.points = @ + 1] ELSE qs[i]]

\* Home re-renders the Quiz with a different questions array: the
\* filter-and-shuffle effect, which depends on [questions, category], runs
\* again on the mounted Quiz.
QuestionsRefetched ==
  /\ Mounted
  /\ questions = FullBank
  /\ questions' = EditedBank(questions)
  /\ \E order \in ShuffleChoices(EditedBank(questions), playerCategory) :
       Settle(FilterAndShuffle(quiz, EditedBank(questions), order))
  /\ UNCHANGED <<settings, playerCategory, pending, sessions, ticks>>

\* The sessions on a loaded bank, in the categories that have questions.
InitRefetch ==
  /\ InitWrites
  /\ questions = FullBank

NextRefetch ==
  \/ Next
  \/ QuestionsRefetched

SpecRefetch == InitRefetch /\ [][NextRefetch]_vars

\* PLAY AGAIN on the score page: handlePlayAgain makes the same calls as
\* handleStartQuiz, and Home mounts a new Quiz.
PlayAgain ==
  /\ home.gameStage = "score"
  /\ sessions < MaxSessions
  /\ \E order \in ShuffleChoices(questions, playerCategory) : Mount(order)

\* handleBackToMain on the score page.
BackToMain ==
  /\ home.gameStage = "score"
  /\ sessions < MaxSessions
  /\ home' = [home EXCEPT !.gameStage = "login", !.playerName = ""]
  /\ playerCategory' = 1
  /\ UNCHANGED <<questions, settings, quiz, pending, sessions, reports,
                 ticks, writes>>

\* handleStartGame: Login passes the name it has validated.
StartGame ==
  /\ home.gameStage = "login"
  /\ home' = [home EXCEPT !.gameStage = "category", !.playerName = "player"]
  /\ UNCHANGED <<questions, settings, playerCategory, quiz, pending, sessions,
                 reports, ticks, writes>>

\* handleCategorySelect.
CategorySelect(cat) ==
  /\ home.gameStage = "category"
  /\ home' = [home EXCEPT !.gameStage = "rules"]
  /\ playerCategory' = cat
  /\ UNCHANGED <<questions, settings, quiz, pending, sessions, reports,
                 ticks, writes>>

\* The categories with a single question.
ShortCategories == {cat \in CategoryIds : Len(FilterSeq(FullBank, cat)) = 1}

\* Sessions one after the other, on a loaded bank and in the categories
\* with a single question.
InitAgain ==
  /\ InitRefetch
  /\ playerCategory \in ShortCategories

NextAgain ==
  \/ Next
  \/ PlayAgain
  \/ BackToMain
  \/ StartGame
  \/ \E cat \in ShortCategories : CategorySelect(cat)

SpecAgain == InitAgain /\ [][NextAgain]_vars

\* ------------------------------------------------------------- claims
\* An Immediate-Feedback session that has loaded its questions.
ImmediateSession == sessions > 0 /\ ~quiz.isLoading /\ ~quiz.isReviewMode
ReviewSession == sessions > 0 /\ ~quiz.isLoading /\ quiz.isReviewMode

Indices(q) == 0..(NumQuestions(q) - 1)
HasAnswer(q, i) == i \in DOMAIN q.userAnswers
AnswerIsCorrect(q, i) ==
  HasAnswer(q, i) /\ q.userAnswers[i] = QuestionAt(q, i).correctAnswer
ExpectedScore(q) == SumOver({i \in Indices(q) : AnswerIsCorrect(q, i)}, PointsOf(q))
LastReport == reports[Len(reports)]

\* C1: in every reachable state of an Immediate-Feedback session, score is
\* the sum of the point values of exactly the questions whose recorded
\* answer equals the correct-answer index.
C1_ScoreIsSumOfCorrectAnswers ==
  ImmediateSession => quiz.score = ExpectedScore(quiz)

\* C2: in every reachable state of an Immediate-Feedback session,
\* questionsAnswered is the number of questions with a recorded answer (so
\* at most len(order)), correctAnswers is the number of those whose recorded
\* answer is correct, and the rest are the incorrect ones.
C2_CountersMatchRecords ==
  ImmediateSession =>
    /\ quiz.answeredQuestions = Cardinality({i \in Indices(quiz) : HasAnswer(quiz, i)})
    /\ quiz.answeredQuestions <= NumQuestions(quiz)
    /\ quiz.correctAnswers = Cardinality({i \in Indices(quiz) : AnswerIsCorrect(quiz, i)})
    /\ quiz.answeredQuestions = quiz.correctAnswers
         + Cardinality({i \in Indices(quiz) :
                          HasAnswer(quiz, i) /\ ~AnswerIsCorrect(quiz, i)})

\* The fields an answer may change.
AnswerFields(q) ==
  <<q.userAnswers, q.answeredQuestionsMap, q.score, q.correctAnswers,
    q.answeredQuestions, q.lives>>

\* C3: in Immediate-Feedback mode an answer-selection event delivered while
\* the displayed question already has a recorded answer, or while the clock
\* is not running, changes none of userAnswers, answered, score,
\* correctAnswers, questionsAnswered, remainingLives.
C3_AnswerOnAnsweredQuestionRejected ==
  (/\ ImmediateSession /\ Mounted /\ View(quiz) = "question"
   /\ (HasAnswer(quiz, quiz.currentQuestionIndex) \/ ~quiz.isTimerRunning))
  => \A a \in 0..(NumOptions - 1) :
       AnswerFields(HandleAnswerClick(quiz, a)) = AnswerFields(quiz)

\* The session has ended and its tally has been handed to Home.
Terminal == home.gameStage = "score" /\ quiz.quizEnded /\ reports # <<>>

\* C4: remainingSeconds starts at the quiz duration, goes down by exactly 1
\* per clock tick, never goes up and never below 0, and in every mode and
\* sub-state the session is terminal once Settings.durationSeconds ticks
\* have happened.
C4_ClockCountsDownToEnd ==
  /\ [](/\ quiz.quizTimeLeft = settings.quizDurationSeconds - ticks
        /\ quiz.quizTimeLeft >= 0
        /\ (sessions > 0 /\ ticks >= settings.quizDurationSeconds => Terminal))
  /\ [][\/ quiz'.quizTimeLeft = quiz.quizTimeLeft /\ ticks' = ticks
        \/ quiz'.quizTimeLeft = quiz.quizTimeLeft - 1 /\ ticks' = ticks + 1]_vars

\* Time ran out while the review screen was shown.
C4_Witness ==
  quiz.quizTimeLeft = 0 /\ ticks = Duration /\ quiz.showReviewScreen /\ Terminal

\* C5: once remainingSeconds is 0, no later event (answer, navigation,
\* review jump, submission, a deferred advance already in flight) changes
\* the session state or the reported tally.
C5_NothingChangesAfterTimeUp ==
  [][(sessions > 0 /\ quiz.quizTimeLeft = 0)
       => (quiz' = quiz /\ home' = home /\ reports' = reports)]_vars

\* A deferred advance that was in flight when time ran out has fired: the
\* selection it would have reset is still there.
C5_Witness ==
  /\ sessions > 0 /\ quiz.quizTimeLeft = 0
  /\ quiz.selectedAnswer # NoAnswer /\ pending = <<>>

\* C6: in Immediate-Feedback mode with lives enabled, the incorrect answer
\* that brings remainingLives to 0 ends the session whatever is still
\* unanswered, nothing is accepted afterwards, and the reported tally
\* counts that answer (1 life, first answer incorrect: 1 answered, 0 correct).
C6_LivesExhaustedEndsSession ==
  (ImmediateSession /\ settings.livesEnabled /\ quiz.lives <= 0)
  => /\ Terminal /\ ~Mounted
     /\ Len(reports) = 1
     /\ LastReport.answered = quiz.answeredQuestions
     /\ LastReport.correct = quiz.correctAnswers
     /\ LastReport.score = quiz.score
     /\ LastReport.answered = LastReport.correct + settings.lives
     /\ HasAnswer(quiz, quiz.currentQuestionIndex)

\* One life, first answer incorrect, another question never answered.
C6_Witness ==
  /\ ImmediateSession /\ settings.livesEnabled /\ settings.lives = 1
  /\ quiz.lives = 0 /\ Terminal
  /\ LastReport.answered = 1 /\ LastReport.correct = 0
  /\ \E i \in Indices(quiz) : ~HasAnswer(quiz, i)

AllAnswered(q) == \A i \in Indices(q) : HasAnswer(q, i)

\* C7: in Immediate-Feedback mode, once every question has a recorded
\* answer the session does not stay running on an answered question: a
\* deferred advance is pending, and when the session has ended by normal
\* completion the tally has questionsAnswered = len(order).
C7_AllAnsweredEndsWithFullCount ==
  (ImmediateSession /\ AllAnswered(quiz))
  => /\ Mounted => pending # <<>>
     /\ (Terminal /\ quiz.quizTimeLeft > 0 /\ quiz.lives > 0)
          => LastReport.answered = NumQuestions(quiz)

Incomplete(q) == \E i \in Indices(q) : ~HasAnswer(q, i)

\* C8: in Review mode a submission attempted while some question has no
\* entry in userAnswers changes nothing and reports nothing, so a tally
\* with review payload only comes from a state where every question has
\* an entry.
C8_IncompleteSubmissionRejected ==
  /\ (ReviewSession /\ Mounted /\ View(quiz) = "review" /\ Incomplete(quiz))
       => (HandleSubmitReview(quiz) = quiz /\ SubmitRejected(quiz))
  /\ home.reviewData.present => ~Incomplete(quiz)

\* The review screen is shown with an unanswered question.
C8_Witness ==
  ReviewSession /\ Mounted /\ View(quiz) = "review" /\ Incomplete(quiz)

\* C9: an accepted Review-mode submission reports score = sum of the points
\* of the questions whose final answer is correct, correctAnswers = their
\* number, questionsAnswered = len(order), with a review payload holding
\* order and userAnswers; all answers correct gives the full sum.
C9_SubmittedTallyIsOnePassScore ==
  home.reviewData.present
  => /\ LastReport.review
     /\ LastReport.score = ExpectedScore(quiz)
     /\ LastReport.correct = Cardinality({i \in Indices(quiz) : AnswerIsCorrect(quiz, i)})
     /\ LastReport.answered = NumQuestions(quiz)
     /\ home.score = LastReport.score
     /\ home.correctAnswers = LastReport.correct
     /\ home.questionsAnswered = LastReport.answered
     /\ home.reviewData.questions = quiz.shuffledQuestions
     /\ home.reviewData.userAnswers = quiz.userAnswers
     /\ (\A i \in Indices(quiz) : AnswerIsCorrect(quiz, i))
          => /\ LastReport.score = SumOver(Indices(quiz), PointsOf(quiz))
             /\ LastReport.correct = NumQuestions(quiz)

\* A submitted session of two questions, both answered correctly.
C9_Witness ==
  /\ home.reviewData.present /\ NumQuestions(quiz) >= 2
  /\ \A i \in Indices(quiz) : AnswerIsCorrect(quiz, i)
  /\ LastReport.score = SumOver(Indices(quiz), PointsOf(quiz))

\* A review submission has been accepted and reported.
Submitted == \E k \in 1..Len(reports) : reports[k].review

\* C10: after an accepted Review-mode submission a further submission
\* event changes no state and reports no second tally: the review screen
\* is gone and no step changes the session, Home or the reports.
C10_SecondSubmissionHasNoEffect ==
  /\ [](Submitted
          => /\ Len(reports) = 1
             /\ home.reviewData.present
             /\ ~(Mounted /\ View(quiz) = "review"))
  /\ [][Submitted
          => (quiz' = quiz /\ home' = home /\ reports' = reports)]_vars

\* A submitted session.
C10_Witness ==
  home.reviewData.present /\ home.gameStage = "score" /\ Len(reports) = 1

NumCorrect(q) == Cardinality({i \in Indices(q) : AnswerIsCorrect(q, i)})

\* C11: when the clock reaches 0 in Review mode before an accepted
\* submission, the session ends without review payload and the reported
\* tally is the score of what was answered so far: recorded answers are
\* scored against the correct answer, unanswered questions count as
\* incorrect and give 0 points.
C11_TimeUpInReviewReportsLockedScore ==
  (ReviewSession /\ quiz.quizTimeLeft = 0)
  => /\ Terminal /\ Len(reports) = 1
     /\ ~LastReport.review /\ ~home.reviewData.present
     /\ LastReport.score = ExpectedScore(quiz)
     /\ LastReport.correct = NumCorrect(quiz)
     /\ home.score = ExpectedScore(quiz)

Range(s) == {s[k] : k \in 1..Len(s)}

\* The questions of the bank whose categories contain the selected one.
Selection == {x \in Range(questions) : playerCategory \in x.categories}

\* C12: the order of a session is a permutation of exactly the questions
\* of the bank whose category set contains the selected category when there
\* are any, and otherwise a permutation of the entire bank (as long as the
\* full bank, not empty).
C12_OrderIsPermutationOfSelection ==
  sessions > 0
  => LET pool == IF Selection # {} THEN Selection ELSE Range(questions)
     IN  /\ Range(quiz.shuffledQuestions) = pool
         /\ NumQuestions(quiz) = Cardinality(pool)
         /\ Selection = {} => NumQuestions(quiz) = Len(questions)

\* A session of a category without questions runs on the whole bank.
C12_Witness ==
  /\ sessions > 0 /\ Selection = {} /\ questions # <<>>
  /\ NumQuestions(quiz) = Len(questions) /\ View(quiz) = "question"

\* The indices a navigation event may carry.
JumpTargets == -1..BankSize

\* C13: a jump to index i is rejected with no state change if i is the
\* current index, or the clock is not running, or (Immediate mode only)
\* question i is already answered, or i is outside 0..len(order)-1; in
\* Review mode a jump to any other in-range index, answered or not, is
\* accepted while the clock runs.
C13_NavigationRejections ==
  sessions > 0
  => \A i \in JumpTargets :
       /\ (\/ i = quiz.currentQuestionIndex
           \/ ~quiz.isTimerRunning
           \/ (~quiz.isReviewMode /\ HasAnswer(quiz, i))
           \/ i \notin Indices(quiz))
          => NavigateToQuestion(quiz, i) = quiz
       /\ (/\ quiz.isReviewMode /\ quiz.isTimerRunning
           /\ i \in Indices(quiz) /\ i # quiz.currentQuestionIndex)
          => NavigateToQuestion(quiz, i).currentQuestionIndex = i

\* In Review mode the panel is shown while another question is answered.
C13_Witness ==
  /\ ReviewSession /\ Mounted /\ View(quiz) = "question"
  /\ \E i \in Indices(quiz) :
       /\ i # quiz.currentQuestionIndex /\ HasAnswer(quiz, i)
       /\ NavigateToQuestion(quiz, i).currentQuestionIndex = i

\* The fields a jump leaves alone.
JumpFrame(q) ==
  <<q.score, q.correctAnswers, q.answeredQuestions, q.lives, q.quizTimeLeft,
    q.userAnswers, q.answeredQuestionsMap>>

\* C14: an accepted jump to index i sets currentIndex to i and visited[i]
\* to true, clears no visited mark, leaves score, correctAnswers,
\* questionsAnswered, remainingLives, remainingSeconds, userAnswers and
\* answered unchanged, and does not end the session.
C14_AcceptedJumpFrame ==
  (sessions > 0 /\ Mounted /\ View(quiz) = "question")
  => \A i \in JumpTargets :
       LET q2 == NavigateToQuestion(quiz, i)
       IN  q2 # quiz
           => /\ q2.currentQuestionIndex = i
              /\ i \in q2.visitedQuestionsMap
              /\ quiz.visitedQuestionsMap \subseteq q2.visitedQuestionsMap
              /\ JumpFrame(q2) = JumpFrame(quiz)
              /\ TimerEffect(RenderCheck(q2)) = q2

\* A question first reached by a jump: it is unanswered, marked visited, and
\* an earlier question was left unanswered.
C14_Witness ==
  /\ sessions > 0 /\ Mounted /\ View(quiz) = "question"
  /\ quiz.currentQuestionIndex > 0
  /\ quiz.currentQuestionIndex \in quiz.visitedQuestionsMap
  /\ quiz.userAnswers = EmptyMap /\ pending = <<>>

\* The session has reached an end condition.
Ended == sessions > 0 /\ (quiz.quizEnded \/ home.gameStage = "score")

\* Write request w carries the tally of report r and the selected category.
WriteMatches(w, r) ==
  /\ w.score = r.score /\ w.answered = r.answered /\ w.correct = r.correct
  /\ w.category = playerCategory /\ r.category = playerCategory

\* C15: a session that has reached a terminal state (time expiry, lives
\* exhausted, all questions answered, accepted review submission) has handed
\* its tally to the Score Reporter exactly once, with exactly one
\* game-session write and one leaderboard write tagged with the selected
\* category; a session that has not ended has reported nothing.  An
\* accepted review submission is reported once, with its payload.
C15_TallyReportedExactlyOnce ==
  /\ Ended
       => /\ Len(reports) = 1
          /\ Len(writes.local) = 1 /\ Len(writes.remote) = 1
          /\ WriteMatches(writes.local[1], LastReport)
          /\ WriteMatches(writes.remote[1], LastReport)
          /\ home.reviewData.present = LastReport.review
          /\ quiz.quizEnded /\ home.gameStage = "score"
  /\ ~Ended
       => reports = <<>> /\ writes.local = <<>> /\ writes.remote = <<>>

\* An accepted review submission, reported once.
C15_Witness ==
  /\ Ended /\ LastReport.review /\ Len(reports) = 1
  /\ Len(writes.local) = 1 /\ Len(writes.remote) = 1
  /\ writes.remote[1].score > 0

Statuses == {"pending", "ok", "failed"}

\* C16: whatever the outcome of the game-session write and of the
\* leaderboard write (each pending, succeeded or failed), the application
\* is at the score stage and the score, questionsAnswered and
\* correctAnswers it shows are those of the tally the engine reported.
C16_WriteOutcomeLeavesScoreShown ==
  (Len(writes.local) > 0 \/ Len(writes.remote) > 0)
  => /\ writes.local[1].status \in Statuses
     /\ writes.remote[1].status \in Statuses
     /\ home.gameStage = "score"
     /\ home.score = LastReport.score
     /\ home.questionsAnswered = LastReport.answered
     /\ home.correctAnswers = LastReport.correct

\* Both writes of a session with a positive score have failed.
C16_Witness ==
  /\ Len(writes.local) = 1 /\ Len(writes.remote) = 1
  /\ writes.local[1].status = "failed" /\ writes.remote[1].status = "failed"
  /\ home.gameStage = "score" /\ home.score > 0
  /\ home.score = LastReport.score

\* C17: when the entire bank is empty the session leaves the Loading state
\* and shows the 'no questions available' condition; when the bank is not
\* empty but the selected category has no questions, that condition is not
\* shown (the fallback is used).
C17_EmptyBankSurfacesNoQuestions ==
  (sessions > 0 /\ Mounted)
  => /\ questions = <<>> => View(quiz) = "noQuestions"
     /\ (questions # <<>> /\ Selection = {}) => View(quiz) = "question"

Unanswered(q, S) == {i \in S : i \in Indices(q) /\ ~HasAnswer(q, i)}
Least(S) == CHOOSE x \in S : \A y \in S : x <= y

\* The oldest deferred advance is due and its Quiz is on screen.
AdvanceDue ==
  /\ pending # <<>> /\ Mounted
  /\ Head(pending).sess = sessions
  /\ Head(pending).age >= MinTicks(DelayOf(quiz))

\* C18: when the deferred advance after an accepted answer at position c
\* moves to another question, the new currentIndex is the smallest index
\* above c that is unanswered at the moment the advance runs, if there is
\* one, and otherwise the smallest unanswered index below c; c itself is
\* never selected; when neither range holds an unanswered index the
\* advance ends the session or shows the review screen.
C18_AdvanceFindsNextUnanswered ==
  AdvanceDue
  => LET c == Head(pending).currentQuestionIndex
         q2 == MoveToNextQuestion(quiz, Head(pending))
         fwd == Unanswered(quiz, (c + 1)..(NumQuestions(quiz) - 1))
         back == Unanswered(quiz, 0..(c - 1))
         terminated == q2.quizEnded \/ q2.showReviewScreen
     IN  /\ (fwd = {} /\ back = {}) => terminated
         /\ ~terminated
              => /\ q2.currentQuestionIndex # c
                 /\ q2.currentQuestionIndex =
                      IF fwd # {} THEN Least(fwd) ELSE Least(back)

\* A deferred continuation of the session on screen has not fired yet.
InDelay == Mounted /\ pending # <<>>

\* C19: answering does not pause the clock: between an accepted answer and
\* the firing of its deferred continuation the clock is running with time
\* left (so the tick is armed), each tick in that interval takes exactly 1
\* off remainingSeconds, and a tick that brings it to 0 there ends the
\* session.
C19_ClockRunsDuringDelay ==
  /\ [](InDelay => (quiz.isTimerRunning /\ quiz.quizTimeLeft > 0))
  /\ [][(InDelay /\ ticks' = ticks + 1)
          => /\ quiz'.quizTimeLeft = quiz.quizTimeLeft - 1
             /\ quiz'.quizTimeLeft = 0
                  => (quiz'.quizEnded /\ home'.gameStage = "score"
                      /\ Len(reports') = 1)]_vars

\* The clock ran out while a continuation that has seen a tick was waiting.
C19_Witness ==
  /\ pending # <<>> /\ Head(pending).age >= 1 /\ Head(pending).sess = sessions
  /\ quiz.quizTimeLeft = 0 /\ Terminal /\ quiz.selectedAnswer # NoAnswer

\* The step is an accepted incorrect answer in Immediate-Feedback mode.
AcceptedIncorrectAnswer ==
  /\ Mounted /\ View(quiz) = "question" /\ ~quiz.isReviewMode
  /\ ~AnswerRejected(quiz)
  /\ \E a \in 0..(NumOptions - 1) :
       /\ a # QuestionAt(quiz, quiz.currentQuestionIndex).correctAnswer
       /\ AnswerClick(a)

\* C20: remainingLives changes only by a decrement of exactly 1, on an
\* accepted incorrect answer in Immediate-Feedback mode with lives enabled,
\* and every such answer makes that decrement; no other step (correct
\* answer, answer with lives disabled or in Review mode, navigation, tick,
\* deferred advance) changes it.
C20_LivesOnlyDropOnIncorrectAnswer ==
  [][/\ quiz'.lives # quiz.lives
          => /\ quiz'.lives = quiz.lives - 1
             /\ settings.livesEnabled
             /\ AcceptedIncorrectAnswer
     /\ (AcceptedIncorrectAnswer /\ settings.livesEnabled)
          => quiz'.lives = quiz.lives - 1
     /\ (AcceptedIncorrectAnswer /\ ~settings.livesEnabled)
          => quiz'.lives = quiz.lives]_vars

\* The first answer was incorrect, has cost a life, and the session goes on.
C20_Witness ==
  /\ ImmediateSession /\ Mounted /\ settings.livesEnabled
  /\ quiz.lives = settings.lives - 1 /\ quiz.lives > 0
  /\ quiz.answeredQuestions = 1 /\ quiz.correctAnswers = 0

\* C21: in Review mode an accepted selection sets userAnswers[currentIndex]
\* to the chosen index, overwriting an earlier entry of that question and
\* leaving the other entries alone, and in every reachable state before an
\* accepted submission score, correctAnswers and questionsAnswered are 0
\* and remainingLives has its initial value.
C21_ReviewSelectionOnlyRecords ==
  (ReviewSession /\ ~Submitted)
  => /\ quiz.score = 0 /\ quiz.correctAnswers = 0
     /\ quiz.answeredQuestions = 0
     /\ quiz.lives = settings.lives
     /\ (Mounted /\ View(quiz) = "question" /\ ~AnswerRejected(quiz))
          => \A a \in 0..(NumOptions - 1) :
               LET q2 == HandleAnswerClick(quiz, a)
                   i == quiz.currentQuestionIndex
               IN  /\ DOMAIN q2.userAnswers = DOMAIN quiz.userAnswers \cup {i}
                   /\ q2.userAnswers[i] = a
                   /\ \A k \in DOMAIN quiz.userAnswers \ {i} :
                        q2.userAnswers[k] = quiz.userAnswers[k]

\* An answered question is on screen again and its answer can be changed.
C21_Witness ==
  /\ ReviewSession /\ ~Submitted /\ Mounted /\ View(quiz) = "question"
  /\ ~AnswerRejected(quiz) /\ HasAnswer(quiz, quiz.currentQuestionIndex)
  /\ \E a \in 0..(NumOptions - 1) :
       /\ a # quiz.userAnswers[quiz.currentQuestionIndex]
       /\ HandleAnswerClick(quiz, a).userAnswers[quiz.currentQuestionIndex] = a

\* The answer of closure c left every question with an entry.
CompletingAnswer(q, c) ==
  c.answeredQuestionsMap \cup {c.currentQuestionIndex} = Indices(q)

\* C22: in Review mode, when the acknowledgement continuation runs after
\* an answer that left every question with an entry in userAnswers (a
\* changed answer and a single-question quiz included), the session shows
\* the review screen and is not ended; and a Review-mode session is
\* terminal only after an accepted submission or with the clock at 0.
C22_ReviewCompletionShowsReviewScreen ==
  /\ (AdvanceDue /\ quiz.isReviewMode /\ CompletingAnswer(quiz, Head(pending)))
       => LET q2 == TimerEffect(RenderCheck(MoveToNextQuestion(quiz, Head(pending))))
          IN  q2.showReviewScreen /\ ~q2.quizEnded /\ View(q2) = "review"
  /\ (ReviewSession /\ Ended) => (Submitted \/ quiz.quizTimeLeft = 0)

\* The review screen of a complete session of two questions, still running.
C22_Witness ==
  /\ ReviewSession /\ Mounted /\ View(quiz) = "review" /\ AllAnswered(quiz)
  /\ NumQuestions(quiz) >= 2 /\ pending = <<>> /\ quiz.quizTimeLeft > 0

\* The ids of the questions of the order, in order.
OrderIds(q) == [k \in 1..NumQuestions(q) |-> q.shuffledQuestions[k].id]

\* The session is running: mounted, its questions loaded, not ended.
Running == sessions > 0 /\ Mounted /\ ~quiz.isLoading /\ ~quiz.quizEnded

\* C23: once a session is running, no event, a change of the questions
\* input delivered to the component included, changes the order (the
\* sequence of questions and its length) until the session ends.
C23_OrderFixedWhileRunning ==
  [][Running => OrderIds(quiz') = OrderIds(quiz)]_vars

\* C24: while the session is active, 0 <= currentIndex < len(order) in
\* every reachable state, after any sequence of answers, deferred advances,
\* navigation jumps and review-screen jumps.
C24_CurrentIndexInRange ==
  Running => quiz.currentQuestionIndex \in Indices(quiz)

\* Back on the last question by a jump from the review screen of a complete
\* session.
C24_Witness ==
  /\ Running /\ quiz.isReviewMode /\ AllAnswered(quiz)
  /\ View(quiz) = "question" /\ pending = <<>>
  /\ NumQuestions(quiz) >= 2
  /\ quiz.currentQuestionIndex = NumQuestions(quiz) - 1

\* C25: visited and the answer records only grow during a session: a
\* visited mark stays, an entry of userAnswers and an answered mark are
\* never removed; index 0 is visited from the start of the session.
C25_VisitedAndAnswersMonotonic ==
  /\ []((sessions > 0 /\ ~quiz.isLoading) => 0 \in quiz.visitedQuestionsMap)
  /\ [][/\ quiz.visitedQuestionsMap \subseteq quiz'.visitedQuestionsMap
        /\ DOMAIN quiz.userAnswers \subseteq DOMAIN quiz'.userAnswers
        /\ quiz.answeredQuestionsMap \subseteq quiz'.answeredQuestionsMap]_vars

\* Every question of an order of two is visited and answered.
C25_Witness ==
  /\ sessions > 0 /\ NumQuestions(quiz) >= 2
  /\ quiz.visitedQuestionsMap = Indices(quiz)
  /\ DOMAIN quiz.userAnswers = Indices(quiz)
  /\ quiz.answeredQuestionsMap = Indices(quiz)

\* The Quiz state is that of a session that has just started.
FreshQuiz(q) ==
  /\ q.currentQuestionIndex = 0
  /\ q.score = 0 /\ q.correctAnswers = 0 /\ q.answeredQuestions = 0
  /\ q.userAnswers = EmptyMap /\ q.answeredQuestionsMap = {}
  /\ q.quizTimeLeft = settings.quizDurationSeconds
  /\ q.lives = settings.lives
  /\ q.selectedAnswer = NoAnswer
  /\ ~q.quizEnded /\ ~q.showReviewScreen /\ q.isTimerRunning
  /\ q.visitedQuestionsMap \subseteq {0}

\* C26: a session started after another one ended (PLAY AGAIN, or back to
\* the main menu and a new start) begins with fresh state, and nothing of
\* the previous session reaches it: a continuation left over from the
\* previous session changes nothing when it fires, and the tally reported
\* at the end is that of the new session's own counters, with a review
\* payload only if this session was submitted.
C26_NewSessionStartsFresh ==
  /\ [](/\ \A k \in 1..Len(reports) : reports[k].sess = k
        /\ Ended
             => /\ Len(reports) = sessions
                /\ LastReport.score = quiz.score
                /\ LastReport.answered = quiz.answeredQuestions
                /\ LastReport.correct = quiz.correctAnswers
                /\ home.reviewData.present = LastReport.review
                /\ home.reviewData.present
                     => home.reviewData.userAnswers = quiz.userAnswers)
  /\ [][/\ sessions' # sessions
             => /\ FreshQuiz(quiz')
                /\ home'.score = 0 /\ home'.correctAnswers = 0
                /\ home'.questionsAnswered = 0
        /\ (pending # <<>> /\ pending' = Tail(pending)
              /\ Head(pending).sess # sessions)
             => (quiz' = quiz /\ home' = home /\ reports' = reports)]_vars

\* The second session is under way while a continuation of the first is
\* still pending and Home still holds the first session's review payload
\* or tally.
C26_Witness ==
  /\ sessions = 2 /\ Mounted /\ ~quiz.isLoading
  /\ Len(reports) = 1 /\ reports[1].answered > 0
  /\ pending # <<>> /\ Head(pending).sess = 1
  /\ DOMAIN quiz.userAnswers # {}

\* The question on screen accepts an answer selection.
SelectionEnabled ==
  /\ sessions > 0 /\ Mounted /\ View(quiz) = "question"
  /\ ~AnswerRejected(quiz)

\* C27: in Immediate-Feedback mode, whenever answer selection is enabled
\* (clock running, no selection pending on the displayed question), the
\* question at currentIndex has no recorded answer.
C27_EnabledQuestionIsUnanswered ==
  (ImmediateSession /\ SelectionEnabled)
  => ~HasAnswer(quiz, quiz.currentQuestionIndex)

\* Report r carries the counters of Quiz state q.
TallyOf(r, q) ==
  /\ r.score = q.score
  /\ r.answered = q.answeredQuestions
  /\ r.correct = q.correctAnswers

\* C28: the tally reported when an Immediate-Feedback session ends equals
\* the engine's counters at the moment of ending and includes the last
\* accepted answer: when the step that ends the session is an answer (the
\* one that exhausts the lives), the reported questionsAnswered is one more
\* than before the answer, and when it is a deferred advance or a tick, the
\* counters it reports are those the accepted answers have left.
C28_TallyIncludesLastAnswer ==
  /\ []((ImmediateSession /\ Ended)
          => (Len(reports) = 1 /\ TallyOf(LastReport, quiz) /\ ~LastReport.review))
  /\ [][(~quiz.isReviewMode /\ Len(reports') = Len(reports) + 1)
          => LET r == reports'[Len(reports')]
             IN  /\ TallyOf(r, quiz')
                 /\ home'.score = r.score
                 /\ home'.questionsAnswered = r.answered
                 /\ home'.correctAnswers = r.correct
                 /\ IF quiz'.lives # quiz.lives
                    THEN /\ r.answered = quiz.answeredQuestions + 1
                         /\ r.correct = quiz.correctAnswers
                         /\ r.score = quiz.score
                         /\ quiz'.lives = 0
                    ELSE TallyOf(r, quiz)]_vars

\* A correct answer, then the answer that takes the last life: the tally
\* counts both.
C28_Witness ==
  /\ ImmediateSession /\ Terminal /\ settings.livesEnabled /\ quiz.lives = 0
  /\ LastReport.answered = 2 /\ LastReport.correct = 1 /\ LastReport.score > 0

C30_LivesWithinBounds ==
  (settings.livesEnabled /\ settings.lives > 0)
  => /\ 0 <= quiz.lives /\ quiz.lives <= settings.lives
     /\ (sessions > 0 /\ quiz.lives = 0) => (quiz.quizEnded /\ ~SelectionEnabled)

\* Two lives, both lost on incorrect answers.
C30_Witness ==
  /\ ImmediateSession /\ settings.livesEnabled /\ settings.lives = 2
  /\ quiz.lives = 0 /\ quiz.quizEnded /\ LastReport.correct = 0
  /\ LastReport.answered = 2

====
